---- MODULE Spec2Model ----
(***************************************************************************)
(* RealEstateDataCleaner (src/data/clean_data.py): the cleaner object, its *)
(* three fields, the files it reads and writes, and its eight public       *)
(* methods, each as one action.                                            *)
(*                                                                         *)
(* The parameter of load_data and of save_cleaned_data is spelled          *)
(* data/raw/kc_house_data.csv in the source (lines 31, 34, 187, 195-198);  *)
(* it is read here as the ordinary parameter file_path it stands for.      *)
(*                                                                         *)
(* Cells are tagged values: NA (NaN/None), Num(v) and Str(s).  A number is *)
(* held in halves (Num(2) is 1.0, Num(3) is 1.5): files hold whole numbers *)
(* only, so the median of two of them is exact.  Row labels are the pandas *)
(* index: 0.. after read_csv, kept by dropna and drop_duplicates.          *)
(***************************************************************************)
EXTENDS Integers, Sequences, FiniteSets

VARIABLES
    files,            \* the file system: path -> <<>> (no file) or <<csv>>
    raw_data,         \* self.raw_data: <<>> (None) or <<DataFrame>>
    cleaned_data,     \* self.cleaned_data: <<>> (None) or <<DataFrame>>
    cleaning_report,  \* self.cleaning_report: <<>> ({}) or <<report>>
    last              \* the last public call: its name, arguments and outcome

vars == <<files, raw_data, cleaned_data, cleaning_report, last>>

-----------------------------------------------------------------------------
(* Bounds of the model *)

MaxRows == 2
MaxCleanRows == 3
MaxIqrRows == 4

-----------------------------------------------------------------------------
(* Values *)

None == <<>>
Some(x) == <<x>>

NA == [kind |-> "na"]
Num(v) == [kind |-> "num", v |-> v]
Str(s) == [kind |-> "str", v |-> s]
Whole(k) == Num(2 * k)

IsNull(cell) == cell.kind = "na"

\* The text values of the input files, in the order pandas sorts them.
Texts == <<"a", "b">>

Range(s) == {s[i] : i \in 1..Len(s)}

RECURSIVE SumSeq(_)
SumSeq(s) == IF s = <<>> THEN 0 ELSE Head(s) + SumSeq(Tail(s))

RECURSIVE InsertSorted(_, _)
InsertSorted(x, s) ==
    IF s = <<>> THEN <<x>>
    ELSE IF x <= Head(s) THEN <<x>> \o s
    ELSE <<Head(s)>> \o InsertSorted(x, Tail(s))

RECURSIVE SortSeq(_)
SortSeq(s) == IF s = <<>> THEN <<>> ELSE InsertSorted(Head(s), SortSeq(Tail(s)))

-----------------------------------------------------------------------------
(* DataFrame: [columns, dtypes, rows], a row being [index, cells] *)

NRows(df) == Len(df.rows)

\* df[col] without its missing cells, as the sequence of the values
NonNull(df, col) ==
    LET cells == [i \in 1..NRows(df) |-> df.rows[i].cells[col]]
        kept == SelectSeq(cells, LAMBDA c : ~IsNull(c))
    IN  [i \in 1..Len(kept) |-> kept[i].v]

\* df[col].isnull().sum()
NullCount(df, col) == Cardinality({i \in 1..NRows(df) : IsNull(df.rows[i].cells[col])})

\* df.select_dtypes(include=[...]).columns
select_dtypes(df, dtype) == SelectSeq(df.columns, LAMBDA c : df.dtypes[c] = dtype)

\* pd.read_csv: a column whose cells are all numbers or empty is numeric, any
\* other is object; with no row at all every column is object.  The index is 0..
read_csv(csv) ==
    LET n == Len(csv.rows)
        numeric(c) == n > 0 /\ \A i \in 1..n : csv.rows[i][c].kind \in {"na", "num"}
    IN  [columns |-> csv.columns,
         dtypes  |-> [c \in Range(csv.columns) |-> IF numeric(c) THEN "number" ELSE "object"],
         rows    |-> [i \in 1..n |-> [index |-> i - 1, cells |-> csv.rows[i]]]]

\* df.to_csv(path, index=False): the header and the cells, without the index
to_csv(df) ==
    [columns |-> df.columns,
     rows    |-> [i \in 1..NRows(df) |-> df.rows[i].cells]]

\* A median that takes the lower of the two middle values
MedianLow(vals) ==
    LET s == SortSeq(vals)
        n == Len(s)
    IN  IF n = 0 THEN NA ELSE Num(s[(n + 1) \div 2])

\* Series.median(): skips the missing cells; NaN when nothing is left
Median(vals) ==
    LET s == SortSeq(vals)
        n == Len(s)
    IN  IF n = 0 THEN NA
        ELSE IF n % 2 = 1 THEN Num(s[(n + 1) \div 2])
        ELSE Num((s[n \div 2] + s[n \div 2 + 1]) \div 2)

\* Series.mode(): the most frequent values, sorted; empty when all are missing
Mode(vals) ==
    LET count(t) == Cardinality({i \in 1..Len(vals) : vals[i] = t})
        most == IF vals = <<>> THEN 0
                ELSE CHOOSE m \in 1..Len(vals) :
                        /\ \E t \in Range(vals) : count(t) = m
                        /\ \A t \in Range(vals) : count(t) <= m
    IN  SelectSeq(Texts, LAMBDA t : most > 0 /\ count(t) = most)

\* df[col].fillna(value, inplace=True); filling with NaN fills nothing
fillna(df, col, value) ==
    [df EXCEPT !.rows = [i \in 1..NRows(df) |->
        IF IsNull(df.rows[i].cells[col])
        THEN [df.rows[i] EXCEPT !.cells[col] = value]
        ELSE df.rows[i]]]

\* lines 114-116: one numeric column, filled with its median
FillNumeric(df, col) ==
    IF NullCount(df, col) > 0 THEN fillna(df, col, Median(NonNull(df, col))) ELSE df

\* lines 121-123: one object column, filled with its first mode, or 'Unknown'
FillCategorical(df, col) ==
    IF NullCount(df, col) > 0
    THEN LET mode == Mode(NonNull(df, col))
         IN  fillna(df, col, IF Len(mode) > 0 THEN Str(mode[1]) ELSE Str("Unknown"))
    ELSE df

\* line 113: for col in numeric_cols
RECURSIVE FillNumericColumns(_, _)
FillNumericColumns(df, cols) ==
    IF cols = <<>> THEN df
    ELSE FillNumericColumns(FillNumeric(df, Head(cols)), Tail(cols))

\* line 120: for col in categorical_cols
RECURSIVE FillCategoricalColumns(_, _)
FillCategoricalColumns(df, cols) ==
    IF cols = <<>> THEN df
    ELSE FillCategoricalColumns(FillCategorical(df, Head(cols)), Tail(cols))

\* lines 107-124: strategy 'default'
FillDefault(df) ==
    LET numeric_cols == select_dtypes(df, "number")
        categorical_cols == select_dtypes(df, "object")
    IN  FillCategoricalColumns(FillNumericColumns(df, numeric_cols), categorical_cols)

\* dropna(how='all'): a row goes only when all of its cells are missing
dropna_all(df) ==
    [df EXCEPT !.rows = SelectSeq(df.rows,
        LAMBDA r : \E c \in Range(df.columns) : ~IsNull(r.cells[c]))]

\* df.dropna(inplace=True): a row goes when any of its cells is missing
dropna(df) ==
    [df EXCEPT !.rows = SelectSeq(df.rows,
        LAMBDA r : \A c \in Range(df.columns) : ~IsNull(r.cells[c]))]

\* df.duplicated(): a row is a duplicate when an earlier row has the same
\* cells (missing cells count as equal), whatever the index
duplicated(df, i) == \E j \in 1..(i - 1) : df.rows[j].cells = df.rows[i].cells

\* The positions a boolean mask keeps, in order
KeepIndices(mask) ==
    LET F[i \in 0..Len(mask)] == IF i = 0 THEN <<>>
                                 ELSE IF mask[i] THEN Append(F[i - 1], i) ELSE F[i - 1]
    IN  F[Len(mask)]

\* A deduplication that compares a row with the row before it only
drop_adjacent_duplicates(df) ==
    LET kept == KeepIndices([i \in 1..NRows(df) |->
                        i = 1 \/ df.rows[i - 1].cells # df.rows[i].cells])
    IN  [df EXCEPT !.rows = [k \in 1..Len(kept) |-> df.rows[kept[k]]]]

\* df.drop_duplicates(inplace=True): keep='first', order and index kept
drop_duplicates(df) ==
    LET kept == KeepIndices([i \in 1..NRows(df) |-> ~duplicated(df, i)])
    IN  [df EXCEPT !.rows = [k \in 1..Len(kept) |-> df.rows[kept[k]]]]

-----------------------------------------------------------------------------
(* Outlier detection *)

\* Series.quantile(k/4), linear interpolation, four times the value; the caller
\* has excluded the empty series, whose quantile is NaN
Quantile4(vals, k) ==
    LET s == SortSeq(vals)
        pos == k * (Len(s) - 1)
        j == pos \div 4 + 1
        r == pos % 4
    IN  IF r = 0 THEN 4 * s[j] ELSE 4 * s[j] + r * (s[j + 1] - s[j])

\* lines 164-168, eight times the bounds: Q1 - 1.5 * IQR and Q3 + 1.5 * IQR
lower_bound(vals) ==
    LET Q1 == Quantile4(vals, 1)
        Q3 == Quantile4(vals, 3)
        IQR == Q3 - Q1
    IN  2 * Q1 - 3 * IQR

upper_bound(vals) ==
    LET Q1 == Quantile4(vals, 1)
        Q3 == Quantile4(vals, 3)
        IQR == Q3 - Q1
    IN  2 * Q3 + 3 * IQR

\* Bounds that a value on them is outside of: <= and >=
OnOrOutsideBounds(v, lo, hi) == 8 * v <= lo \/ 8 * v >= hi

\* lines 170-171: (df[col] < lower_bound) | (df[col] > upper_bound), for a value
\* v and bounds lo and hi that are eight times the bounds
OutsideBounds(v, lo, hi) == 8 * v < lo \/ 8 * v > hi

\* lines 164-171: whether row i is an IQR outlier of col.  A missing cell, or
\* any cell of a column with no value (NaN bounds), compares false
IqrOutlier(df, col, i) ==
    LET vals == NonNull(df, col)
        cell == df.rows[i].cells[col]
    IN  /\ ~IsNull(cell)
        /\ OutsideBounds(cell.v, lower_bound(vals), upper_bound(vals))

\* lines 174-175: |x - mean| / std > 3 with the sample deviation (ddof = 1),
\* in whole numbers: n >= 2, variance > 0 and
\* (n*x - S)^2 * (n - 1) > 9 * n * (n*SS - S^2).  With one value, or with no
\* spread, the score is NaN and compares false
ZscoreOutlier(df, col, i) ==
    LET vals == NonNull(df, col)
        n == Len(vals)
        S == SumSeq(vals)
        SS == SumSeq([k \in 1..n |-> vals[k] * vals[k]])
        cell == df.rows[i].cells[col]
    IN  /\ ~IsNull(cell)
        /\ n >= 2
        /\ n * SS - S * S > 0
        /\ (n * cell.v - S) * (n * cell.v - S) * (n - 1) > 9 * n * (n * SS - S * S)

\* lines 177-181: the record of one column; the percentage is the fraction
\* <<100 * count, rows>>
OutlierRecord(df, col, method) ==
    LET flagged == KeepIndices([i \in 1..NRows(df) |->
                       IF method = "iqr" THEN IqrOutlier(df, col, i)
                       ELSE ZscoreOutlier(df, col, i)])
    IN  [count      |-> Len(flagged),
         percentage |-> <<100 * Len(flagged), NRows(df)>>,
         indices    |-> [k \in 1..Len(flagged) |-> df.rows[flagged[k]].index]]

\* The exceptions one turn of the loop of lines 162-183 can raise ({} when it
\* raises none): with a method that is neither 'iqr' nor 'zscore', outliers is
\* read unbound at line 178; df[col] of an unknown column raises KeyError; the
\* quantile or the difference of a column of text raises TypeError (of an
\* object column with no row, it may also pass, and line 179 then divides by
\* zero); with no row, line 179 divides 0 by 0.
ColumnFault(df, col, method) ==
    IF method \notin {"iqr", "zscore"} THEN {"UnboundLocalError"}
    ELSE IF col \notin Range(df.columns) THEN {"KeyError"}
    ELSE IF df.dtypes[col] = "object"
         THEN IF NRows(df) = 0 THEN {"TypeError", "ZeroDivisionError"} ELSE {"TypeError"}
    ELSE IF NRows(df) = 0 THEN {"ZeroDivisionError"}
    ELSE {}

\* The exceptions the loop can raise: those of its first turn that raises
LoopFault(df, cols, method) ==
    LET bad == {k \in 1..Len(cols) : ColumnFault(df, cols[k], method) # {}}
    IN  IF bad = {} THEN {}
        ELSE ColumnFault(df, cols[CHOOSE k \in bad : \A m \in bad : k <= m], method)

-----------------------------------------------------------------------------
(* The quality report *)

\* (missing / len(df) * 100).round(2), in hundredths; NaN with no row
Percentage(count, rows) ==
    IF rows = 0 THEN None ELSE Some((20000 * count + rows) \div (2 * rows))

\* lines 47-66
Report(df) ==
    LET cols == Range(df.columns)
    IN  [total_rows         |-> NRows(df),
         total_columns      |-> Len(df.columns),
         missing_values     |-> [c \in {d \in cols : NullCount(df, d) > 0} |-> NullCount(df, c)],
         missing_percentage |-> [c \in cols |-> Percentage(NullCount(df, c), NRows(df))],
         data_types         |-> df.dtypes,
         duplicate_rows     |-> Cardinality({i \in 1..NRows(df) : duplicated(df, i)}),
         numeric_columns    |-> select_dtypes(df, "number")]

-----------------------------------------------------------------------------
(* The files and the arguments the calls are made with *)

LoadPaths == {"in.csv", "none.csv"}        \* "none.csv" never exists
SavePaths == {"out.csv", "ro/out.csv"}     \* "ro/" cannot be written to
Paths == LoadPaths \cup SavePaths
Writable(path) == path = "out.csv"

Strategies == {"default", "drop", "mean"}  \* 'mean' is no strategy of the code
Methods == {"iqr", "zscore", "mad"}        \* 'mad' is no method of the code
ColumnLists == {None, Some(<<"price">>), Some(<<"zip">>)}

\* The csv files of at most n rows over the given columns and cells
Sequences(S, n) == UNION {[1..k -> S] : k \in 0..n}

CsvFiles(columns, Rows, n) ==
    {[columns |-> columns, rows |-> rows] : rows \in Sequences(Rows, n)}

\* Spec: two columns, one number, one text
SmallRows == [price : {NA, Whole(1)}, city : {NA, Str("a")}]

\* SpecClean: two columns, two numbers, two texts
CleanRows == [price : {NA, Whole(1), Whole(2)}, city : {NA, Str("a"), Str("b")}]

\* SpecIqr: one numeric column; the series 1, 2, 3, 4, 5, 100 with any of its
\* values kept, emptied or left out, forwards or backwards, and every short
\* series over a few values
Example == <<1, 2, 3, 4, 5, 100>>

Reverse(s) == [i \in 1..Len(s) |-> s[Len(s) + 1 - i]]

ExampleSeries ==
    LET Variant(how) ==
            LET kept == KeepIndices([i \in 1..Len(Example) |-> how[i] # "out"])
            IN  [k \in 1..Len(kept) |->
                    [price |-> IF how[kept[k]] = "na" THEN NA ELSE Whole(Example[kept[k]])]]
        variants == {Variant(how) : how \in [1..Len(Example) -> {"keep", "na", "out"}]}
    IN  variants \cup {Reverse(v) : v \in variants}

IqrFiles ==
    {[columns |-> <<"price">>, rows |-> rows] :
        rows \in ExampleSeries \cup Sequences([price : {NA, Whole(1), Whole(2), Whole(9)}], MaxIqrRows)}

-----------------------------------------------------------------------------
(* The cleaner *)

Call(op, args, calls, result, exc, value) ==
    [op |-> op, args |-> args, calls |-> calls, result |-> result, exc |-> exc,
     value |-> value]

Return(op, args, result) == Call(op, args, <<>>, result, "", None)
Raise(op, args, exc) == Call(op, args, <<>>, "raised", exc, None)

\* lines 24-29, with the input file csv on disk
InitWith(csv) ==
    /\ files = [p \in Paths |-> IF p = "in.csv" THEN Some(csv) ELSE None]
    /\ raw_data = None
    /\ cleaned_data = None
    /\ cleaning_report = None
    /\ last = Return("__init__", <<>>, "None")

Init == \E csv \in CsvFiles(<<"price", "city">>, SmallRows, MaxRows) : InitWith(csv)

InitClean == \E csv \in CsvFiles(<<"price", "city">>, CleanRows, MaxCleanRows) : InitWith(csv)

InitIqr == \E csv \in IqrFiles : InitWith(csv)

\* lines 31-39: a file that cannot be read leaves raw_data as it was
load_data(file_path) ==
    /\ IF files[file_path] # None
       THEN /\ raw_data' = Some(read_csv(files[file_path][1]))
            /\ last' = Return("load_data", <<file_path>>, "DataFrame")
       ELSE /\ raw_data' = raw_data
            /\ last' = Return("load_data", <<file_path>>, "None")
    /\ UNCHANGED <<files, cleaned_data, cleaning_report>>

\* lines 41-69
generate_data_quality_report ==
    /\ IF raw_data = None
       THEN /\ cleaning_report' = cleaning_report
            /\ last' = Return("generate_data_quality_report", <<>>, "None")
       ELSE /\ cleaning_report' = Some(Report(raw_data[1]))
            /\ last' = Return("generate_data_quality_report", <<>>, "dict")
    /\ UNCHANGED <<files, raw_data, cleaned_data>>

\* lines 71-93: with an empty report and no data, line 74 leaves the report
\* empty and line 80 raises KeyError
print_data_quality_report ==
    LET generate == cleaning_report = None
        report == IF generate /\ raw_data # None THEN Some(Report(raw_data[1]))
                  ELSE cleaning_report
        calls == IF generate THEN <<"generate_data_quality_report">> ELSE <<>>
    IN  /\ cleaning_report' = report
        /\ last' = IF report = None
                   THEN Call("print_data_quality_report", <<>>, calls, "raised", "KeyError", None)
                   ELSE Call("print_data_quality_report", <<>>, calls, "None", "", None)
        /\ UNCHANGED <<files, raw_data, cleaned_data>>

\* lines 107-129 on the copy of line 102; any other strategy changes nothing
ApplyStrategy(df, strategy) ==
    IF strategy = "default" THEN FillDefault(df)
    ELSE IF strategy = "drop" THEN dropna(df)
    ELSE df

\* Cleaning without the copy of line 102: raw_data is the table cleaned
handle_missing_values_in_place(strategy) ==
    /\ IF raw_data = None
       THEN /\ cleaned_data' = cleaned_data
            /\ raw_data' = raw_data
            /\ last' = Return("handle_missing_values", <<strategy>>, "None")
       ELSE /\ cleaned_data' = Some(ApplyStrategy(raw_data[1], strategy))
            /\ raw_data' = cleaned_data'
            /\ last' = Return("handle_missing_values", <<strategy>>, "DataFrame")
    /\ UNCHANGED <<files, cleaning_report>>

\* lines 95-134: cleaned_data is a copy of raw_data, then cleaned
handle_missing_values(strategy) ==
    /\ IF raw_data = None
       THEN /\ cleaned_data' = cleaned_data
            /\ last' = Return("handle_missing_values", <<strategy>>, "None")
       ELSE /\ cleaned_data' = Some(ApplyStrategy(raw_data[1], strategy))
            /\ last' = Return("handle_missing_values", <<strategy>>, "DataFrame")
    /\ UNCHANGED <<files, raw_data, cleaning_report>>

\* Deduplication without the check of lines 138-140: None has no
\* drop_duplicates
remove_duplicates_unchecked ==
    /\ IF cleaned_data = None
       THEN /\ cleaned_data' = cleaned_data
            /\ last' = Raise("remove_duplicates", <<>>, "AttributeError")
       ELSE /\ cleaned_data' = Some(drop_duplicates(cleaned_data[1]))
            /\ last' = Return("remove_duplicates", <<>>, "DataFrame")
    /\ UNCHANGED <<files, raw_data, cleaning_report>>

\* lines 136-149
remove_duplicates ==
    /\ IF cleaned_data = None
       THEN /\ cleaned_data' = cleaned_data
            /\ last' = Return("remove_duplicates", <<>>, "None")
       ELSE /\ cleaned_data' = Some(drop_duplicates(cleaned_data[1]))
            /\ last' = Return("remove_duplicates", <<>>, "DataFrame")
    /\ UNCHANGED <<files, raw_data, cleaning_report>>

\* lines 151-185: the dict of the records, or the exception of the loop
detect_outliers(method, columns) ==
    /\ IF cleaned_data = None
       THEN last' = Return("detect_outliers", <<method, columns>>, "None")
       ELSE LET df == cleaned_data[1]
                cols == IF columns = None THEN select_dtypes(df, "number") ELSE columns[1]
                faults == LoopFault(df, cols, method)
            IN  IF faults = {}
                THEN last' = Call("detect_outliers", <<method, columns>>, <<>>, "dict", "",
                                  Some([c \in Range(cols) |-> OutlierRecord(df, c, method)]))
                ELSE \E exc \in faults :
                        last' = Raise("detect_outliers", <<method, columns>>, exc)
    /\ UNCHANGED <<files, raw_data, cleaned_data, cleaning_report>>

\* lines 187-202: a path that cannot be written raises inside the try
save_cleaned_data(file_path) ==
    /\ IF cleaned_data = None
       THEN /\ files' = files
            /\ last' = Return("save_cleaned_data", <<file_path>>, "False")
       ELSE IF Writable(file_path)
       THEN /\ files' = [files EXCEPT ![file_path] = Some(to_csv(cleaned_data[1]))]
            /\ last' = Return("save_cleaned_data", <<file_path>>, "True")
       ELSE /\ files' = files
            /\ last' = Return("save_cleaned_data", <<file_path>>, "False")
    /\ UNCHANGED <<raw_data, cleaned_data, cleaning_report>>

\* A pipeline without the return of line 211: after a failed load it goes on
\* to save the table a previous call has left
clean_data_pipeline_no_return(input_path, output_path, missing_strategy, remove_outliers, outlier_method) ==
    LET args == <<input_path, remove_outliers>>
        saved == cleaned_data # None /\ Writable(output_path)
    IN  /\ IF files[input_path] # None
           THEN /\ raw_data' = Some(read_csv(files[input_path][1]))
                /\ files' = files
                /\ last' = Call("clean_data_pipeline", args, <<"load_data">>,
                                 "raised", "ValueError", None)
           ELSE /\ raw_data' = raw_data
                /\ files' = IF saved
                            THEN [files EXCEPT ![output_path] = Some(to_csv(cleaned_data[1]))]
                            ELSE files
                /\ last' = Call("clean_data_pipeline", args,
                                 <<"load_data", "save_cleaned_data">>,
                                 IF saved THEN "True" ELSE "False", "", None)
        /\ UNCHANGED <<cleaned_data, cleaning_report>>

\* lines 204-246.  Line 210 is `if not self.load_data(input_path)`: None is
\* false and the call returns False at line 211; a DataFrame has no truth
\* value and `not` raises ValueError, for every DataFrame, after load_data has
\* set raw_data.  No line after 211 is reached, so output_path,
\* missing_strategy and outlier_method are never read; last keeps the two
\* arguments that name the call.
clean_data_pipeline(input_path, output_path, missing_strategy, remove_outliers, outlier_method) ==
    LET args == <<input_path, remove_outliers>>
    IN  /\ IF files[input_path] # None
           THEN /\ raw_data' = Some(read_csv(files[input_path][1]))
                /\ last' = Call("clean_data_pipeline", args, <<"load_data">>,
                                 "raised", "ValueError", None)
           ELSE /\ raw_data' = raw_data
                /\ last' = Call("clean_data_pipeline", args, <<"load_data">>,
                                 "False", "", None)
        /\ UNCHANGED <<files, cleaned_data, cleaning_report>>

Next ==
    \/ \E p \in LoadPaths : load_data(p)
    \/ generate_data_quality_report
    \/ print_data_quality_report
    \/ \E s \in Strategies : handle_missing_values(s)
    \/ remove_duplicates
    \/ \E m \in Methods, c \in ColumnLists : detect_outliers(m, c)
    \/ \E p \in SavePaths : save_cleaned_data(p)
    \/ \E i \in LoadPaths, o \in SavePaths, s \in Strategies, r \in BOOLEAN, m \in Methods :
          clean_data_pipeline(i, o, s, r, m)

Spec == Init /\ [][Next]_vars

\* The cleaning steps alone, on richer tables
NextClean ==
    \/ \E p \in LoadPaths : load_data(p)
    \/ \E s \in Strategies : handle_missing_values(s)
    \/ remove_duplicates

SpecClean == InitClean /\ [][NextClean]_vars

\* Outlier detection on one numeric column
NextIqr ==
    \/ \E p \in LoadPaths : load_data(p)
    \/ \E s \in Strategies : handle_missing_values(s)
    \/ \E m \in Methods, c \in ColumnLists : detect_outliers(m, c)

SpecIqr == InitIqr /\ [][NextIqr]_vars

-----------------------------------------------------------------------------
(* What the claims are stated with *)

Called(op) == last.op = op
Calling(op) == last'.op = op
LoadedBy(path) == files[path] # None

\* The k-th smallest of vals, by counting
KthSmallest(vals, k) ==
    CHOOSE x \in Range(vals) :
        /\ Cardinality({i \in 1..Len(vals) : vals[i] < x}) < k
        /\ k <= Cardinality({i \in 1..Len(vals) : vals[i] <= x})

\* Twice the median of vals
TwiceMedian(vals) ==
    LET n == Len(vals)
    IN  IF n % 2 = 1 THEN 2 * KthSmallest(vals, (n + 1) \div 2)
        ELSE KthSmallest(vals, n \div 2) + KthSmallest(vals, n \div 2 + 1)

\* Four times the (k/4)-quantile of vals: between the two closest ranks of the
\* position k/4 * (n - 1), in proportion
FourTimesQuartile(vals, k) ==
    LET pos == k * (Len(vals) - 1)
        below == KthSmallest(vals, pos \div 4 + 1)
        above == KthSmallest(vals, IF pos % 4 = 0 THEN pos \div 4 + 1 ELSE pos \div 4 + 2)
    IN  (4 - (pos % 4)) * below + (pos % 4) * above

\* v strictly below Q1 - 1.5 * IQR or strictly above Q3 + 1.5 * IQR
StrictlyOutside(v, vals) ==
    LET Q1 == FourTimesQuartile(vals, 1)
        Q3 == FourTimesQuartile(vals, 3)
    IN  \/ 8 * v < 2 * Q1 - 3 * (Q3 - Q1)
        \/ 8 * v > 2 * Q3 + 3 * (Q3 - Q1)

Column(df, col) == [i \in 1..NRows(df) |-> df.rows[i].cells[col]]

Occurrences(df, col, cell) == Cardinality({i \in 1..NRows(df) : df.rows[i].cells[col] = cell})

HoldsExample(df) ==
    /\ df.columns = <<"price">>
    /\ Column(df, "price") = [i \in 1..Len(Example) |-> Whole(Example[i])]

-----------------------------------------------------------------------------
(* The claims *)

\* C1: no public call lets an exception out: every call returns a value or
\* a sentinel.
C1_NoExceptionPropagates == last.result # "raised"

\* C2: when the load fails inside clean_data_pipeline, the pipeline returns
\* False at once: it has called load_data only, it writes no file and it
\* changes no field of the cleaner.
C2_FailedLoadEndsPipeline ==
    [][(Calling("clean_data_pipeline") /\ ~LoadedBy(last'.args[1]))
         => /\ last'.result = "False"
            /\ last'.calls = <<"load_data">>
            /\ UNCHANGED <<files, raw_data, cleaned_data, cleaning_report>>]_vars

\* C2, its case: the pipeline has returned False for a path with no file,
\* on a cleaner that holds a cleaned table it could have saved.
C2_Witness ==
    /\ Called("clean_data_pipeline")
    /\ ~LoadedBy(last.args[1])
    /\ last.result = "False"
    /\ cleaned_data # None

\* C3: when the load succeeds inside clean_data_pipeline, the pipeline calls
\* load, report, print, handle_missing_values, remove_duplicates,
\* detect_outliers and save in this order, each once, and returns the flag of
\* save.
C3_PipelineRunsEveryStep ==
    (Called("clean_data_pipeline") /\ LoadedBy(last.args[1]))
        => /\ last.calls = <<"load_data", "generate_data_quality_report",
                              "print_data_quality_report", "handle_missing_values",
                              "remove_duplicates", "detect_outliers", "save_cleaned_data">>
           /\ last.result \in {"True", "False"}

C5_DropKeepsCompleteRows ==
    (Called("handle_missing_values") /\ last.args = <<"drop">> /\ last.result = "DataFrame")
        => LET raw == raw_data[1]
               df == cleaned_data[1]
               Complete(r) == \A c \in Range(raw.columns) : r.cells[c].kind # "na"
           IN  /\ \A i \in 1..NRows(df) : Complete(df.rows[i])
               /\ \A i \in 1..NRows(df) : df.rows[i] \in Range(raw.rows)
               /\ \A i \in 1..NRows(raw) :
                    Complete(raw.rows[i]) => raw.rows[i] \in Range(df.rows)
               /\ \A i, j \in 1..NRows(df) : i < j => df.rows[i].index < df.rows[j].index

\* C5, its case: some rows of the raw table had a missing cell and are
\* gone, others had none and are kept.
C5_Witness ==
    /\ Called("handle_missing_values") /\ last.args = <<"drop">>
    /\ last.result = "DataFrame"
    /\ 0 < NRows(cleaned_data[1])
    /\ NRows(cleaned_data[1]) < NRows(raw_data[1])

\* C6: while there is no cleaned table, remove_duplicates and detect_outliers
\* return None and save_cleaned_data returns False, and none of them changes
\* the raw table, the cleaned table, the report or a file.
C6_NoCleanedTableGivesSentinel ==
    [][(cleaned_data = None
        /\ (Calling("remove_duplicates") \/ Calling("detect_outliers")
              \/ Calling("save_cleaned_data")))
         => /\ last'.result = IF Calling("save_cleaned_data") THEN "False" ELSE "None"
            /\ UNCHANGED <<files, raw_data, cleaned_data, cleaning_report>>]_vars

\* C6, its case: remove_duplicates has returned None on a cleaner that has
\* loaded a table and not yet cleaned it.
C6_Witness ==
    /\ Called("remove_duplicates")
    /\ last.result = "None"
    /\ raw_data # None
    /\ cleaned_data = None

\* C7: a cleaned table exists only when a raw table does, and
\* handle_missing_values, remove_duplicates, detect_outliers and
\* save_cleaned_data never change the raw table.
C7_RawTableIsNeverCleaned ==
    [][/\ cleaned_data' # None => raw_data' # None
       /\ (Calling("handle_missing_values") \/ Calling("remove_duplicates")
             \/ Calling("detect_outliers") \/ Calling("save_cleaned_data"))
            => raw_data' = raw_data]_vars

\* C7, its case: the cleaned table has lost a row, or had a cell filled,
\* and the raw table is the table of the input file still.
C7_Witness ==
    /\ cleaned_data # None
    /\ raw_data = Some(read_csv(files["in.csv"][1]))
    /\ NRows(cleaned_data[1]) < NRows(raw_data[1])
    /\ Called("remove_duplicates")

\* C8: detect_outliers('iqr') flags, for each column asked for, the rows
\* whose value is strictly below Q1 - 1.5 * IQR or strictly above
\* Q3 + 1.5 * IQR, in their order, and no other row; on the column
\* 1, 2, 3, 4, 5, 100 the quartiles are 2.25 and 4.75 and the one row flagged
\* is the row of 100.
C8_IqrFlagsStrictlyOutside ==
    (Called("detect_outliers") /\ last.args[1] = "iqr" /\ last.result = "dict")
        => LET df == cleaned_data[1]
               info == last.value[1]
           IN  /\ \A c \in DOMAIN info :
                    LET vals == NonNull(df, c)
                        Flagged(i) == /\ df.rows[i].cells[c].kind = "num"
                                      /\ StrictlyOutside(df.rows[i].cells[c].v, vals)
                        indices == info[c].indices
                    IN  /\ \A i \in 1..NRows(df) :
                              Flagged(i) <=> df.rows[i].index \in Range(indices)
                        /\ \A k \in 1..Len(indices) :
                              \E i \in 1..NRows(df) : df.rows[i].index = indices[k]
                        /\ \A j, k \in 1..Len(indices) : j < k => indices[j] < indices[k]
                        /\ info[c].count = Len(indices)
               /\ (HoldsExample(df) /\ "price" \in DOMAIN info)
                    => /\ info["price"].indices = <<5>>
                       /\ info["price"].count = 1
                       /\ FourTimesQuartile(NonNull(df, "price"), 1) = 2 * 9
                       /\ FourTimesQuartile(NonNull(df, "price"), 3) = 2 * 19

\* C8, its case: the outliers of the column 1, 2, 3, 4, 5, 100 have been
\* detected, and the row of 100 is flagged.
C8_Witness ==
    /\ Called("detect_outliers") /\ last.args[1] = "iqr" /\ last.result = "dict"
    /\ HoldsExample(cleaned_data[1])
    /\ last.value[1]["price"].indices = <<5>>

\* C9: detect_outliers never changes the cleaned table, and a pipeline whose
\* load succeeds saves the table remove_duplicates has left, with
\* remove_outliers true or false.
C9_DetectAndPipelineKeepTable ==
    [][/\ Calling("detect_outliers") => cleaned_data' = cleaned_data
       /\ (Calling("clean_data_pipeline") /\ LoadedBy(last'.args[1]))
            => /\ "save_cleaned_data" \in Range(last'.calls)
               /\ cleaned_data' # None
               /\ cleaned_data'[1] = drop_duplicates(cleaned_data'[1])
               /\ last'.result = "True"
                    => \E p \in SavePaths : files'[p] = Some(to_csv(cleaned_data'[1]))]_vars

\* C10: remove_duplicates leaves no two rows with the same cells, and a
\* second call right after a first changes nothing.
C10_RemoveDuplicatesIsIdempotent ==
    [][(Calling("remove_duplicates") /\ last'.result = "DataFrame")
         => /\ \A i, j \in 1..NRows(cleaned_data'[1]) :
                 i # j => cleaned_data'[1].rows[i].cells # cleaned_data'[1].rows[j].cells
            /\ (Called("remove_duplicates") /\ last.result = "DataFrame")
                 => cleaned_data' = cleaned_data]_vars

\* C10, its case: remove_duplicates has removed a row that was not next to
\* the row it repeats, and has kept two rows.
C10_Witness ==
    /\ Called("remove_duplicates") /\ last.result = "DataFrame"
    /\ raw_data # None
    /\ NRows(raw_data[1]) = 3
    /\ raw_data[1].rows[1].cells = raw_data[1].rows[3].cells
    /\ raw_data[1].rows[1].cells # raw_data[1].rows[2].cells
    /\ NRows(cleaned_data[1]) = 2

====
